---- MODULE Spec2Model ----
(***************************************************************************)
(* Melbourne Public Toilet Rating System (a Streamlit script).             *)
(*                                                                         *)
(* Every user interaction reruns the whole script: it obtains df from      *)
(* load_toilet_data(), which is wrapped in st.cache_data, then runs at     *)
(* most one of the two handlers (Submit Rating, Add Toilet), each of which *)
(* mutates the run's df and rewrites melbourne_toilet_ratings.csv.         *)
(*                                                                         *)
(* st.cache_data keeps the value returned by the first call for the life   *)
(* of the server process and hands every later call a fresh copy of it,    *)
(* so a handler's mutation of df never reaches the cached value.           *)
(*                                                                         *)
(* Numbers: avg_rating is an exact rational <<n, d>> in lowest terms (the  *)
(* floating-point rounding of the source is abstracted away); latitude     *)
(* and longitude are integers in units of 1e-4 degree; a date is a day     *)
(* number standing for its "%Y-%m-%d" text.  Text cells of the CSV file    *)
(* are converted as pandas converts them (see ToCsvCell / FromCsvCell).    *)
(***************************************************************************)
EXTENDS Integers, Sequences, FiniteSets, TLC

\* ------------------------------------------------------------------ bounds
MaxDay == 2
MaxRestarts == 1
MaxSubmissions == 2

\* ------------------------------------------------------------------ inputs
\* st.slider("Rating (1-5 stars)", 1, 5, 3)
MinStars == 1
MaxStars == 5
DefaultStars == 3
Stars == MinStars..MaxStars

\* the missing value (float NaN) in an object column of a DataFrame
NaN == "<NaN>"

\* the stars the modelled user submits, and the names the user picks in the
\* selectbox when the table offers them
RatingInputs == {MinStars, DefaultStars, MaxStars}
SelectInputs == {"State Library Toilets", "Test Toilet", NaN}

\* what a user may type in the add form (text_input yields "" when empty)
NameInputs == {"", "Test Toilet", "NA", "State Library Toilets"}
AddressInputs == {"", "1 Test St"}
LatInputs == {-378100}
LonInputs == {1449600}

\* ------------------------------------------------------------- arithmetic
RECURSIVE GCD(_, _)
GCD(a, b) == IF b = 0 THEN a ELSE GCD(b, a % b)

Abs(x) == IF x < 0 THEN -x ELSE x

\* the rational n/d (d > 0) in lowest terms
Rat(n, d) ==
  LET g == GCD(Abs(n), d)
  IN  IF g = 0 THEN <<0, 1>> ELSE <<n \div g, d \div g>>

IntToRat(k) == <<k, 1>>

\* new_avg = (current_avg * current_count + rating) / (current_count + 1)
NewAvg(current_avg, current_count, rating) ==
  Rat(current_avg[1] * current_count + rating * current_avg[2],
      current_avg[2] * (current_count + 1))

\* ------------------------------------------------------------ CSV cells
\* the texts pandas.read_csv turns into NaN by default (those the inputs
\* of this model can produce, and the empty cell)
NaValues == {"", "NA", "N/A", "NULL", "NaN", "nan", "null", "None", "n/a", "#N/A"}

\* to_csv called with na_rep="-"
ToCsvCellNaRep(v) == IF v = NaN THEN "-" ELSE v

\* DataFrame.to_csv: a missing value is written as the empty cell (na_rep="")
ToCsvCell(v) == IF v = NaN THEN "" ELSE v

\* pandas.read_csv: a cell whose text is an NA marker is read as missing
FromCsvCell(c) == IF c \in NaValues THEN NaN ELSE c

ToCsvRow(r) ==
  [name |-> ToCsvCell(r.name), address |-> ToCsvCell(r.address),
   latitude |-> r.latitude, longitude |-> r.longitude,
   avg_rating |-> r.avg_rating, num_ratings |-> r.num_ratings,
   last_updated |-> r.last_updated]

FromCsvRow(c) ==
  [name |-> FromCsvCell(c.name), address |-> FromCsvCell(c.address),
   latitude |-> c.latitude, longitude |-> c.longitude,
   avg_rating |-> c.avg_rating, num_ratings |-> c.num_ratings,
   last_updated |-> c.last_updated]

\* df.head().to_csv(...): only the first five rows are written
to_csvHead(t) ==
  [status |-> "ok",
   rows |-> [i \in 1..(IF Len(t) < 5 THEN Len(t) ELSE 5) |-> ToCsvRow(t[i])]]

\* df.to_csv("melbourne_toilet_ratings.csv", index=False): the whole table,
\* overwriting what was there
to_csv(t) == [status |-> "ok", rows |-> [i \in 1..Len(t) |-> ToCsvRow(t[i])]]

\* pd.read_csv: raises when the file is missing or cannot be parsed
read_csv(f) ==
  IF f.status = "ok"
  THEN [raised |-> FALSE, value |-> [i \in 1..Len(f.rows) |-> FromCsvRow(f.rows[i])]]
  ELSE [raised |-> TRUE, value |-> <<>>]

\* ------------------------------------------------------------- seed data
SeedNames ==
  <<"Flinders Street Station Toilets", "Queen Victoria Market Toilets",
    "Federation Square Toilets", "Melbourne Central Toilets",
    "State Library Toilets">>
SeedAddresses ==
  <<"Flinders St, Melbourne VIC 3000", "Queen St, Melbourne VIC 3000",
    "Swanston St & Flinders St, Melbourne VIC 3000",
    "211 La Trobe St, Melbourne VIC 3000",
    "328 Swanston St, Melbourne VIC 3000">>
SeedLatitude == <<-378183, -378076, -378180, -378106, -378097>>
SeedLongitude == <<1449671, 1449580, 1449674, 1449628, 1449651>>
SeedAvgRating == <<Rat(35, 10), Rat(40, 10), Rat(42, 10), Rat(38, 10), Rat(41, 10)>>
SeedNumRatings == <<12, 8, 15, 10, 7>>

SeedData(now) ==
  [i \in 1..5 |->
     [name |-> SeedNames[i], address |-> SeedAddresses[i],
      latitude |-> SeedLatitude[i], longitude |-> SeedLongitude[i],
      avg_rating |-> SeedAvgRating[i], num_ratings |-> SeedNumRatings[i],
      last_updated |-> now]]

\* except FileNotFoundError: a file that cannot be parsed raises to the caller
load_toilet_dataNotFoundOnly(f, now) ==
  IF f.status = "missing"
  THEN [raised |-> FALSE, value |-> SeedData(now)]
  ELSE read_csv(f)

\* the body of load_toilet_data: try read_csv, on any exception the seed
load_toilet_data(f, now) ==
  LET r == read_csv(f)
  IN  IF r.raised THEN [raised |-> FALSE, value |-> SeedData(now)] ELSE r

\* ------------------------------------------------------------------ state
VARIABLES
  file,       \* melbourne_toilet_ratings.csv: [status, rows]
  cache,      \* the st.cache_data entry of load_toilet_data: [full, val]
  df,         \* the df of the latest script run, as that run left it
  msg,        \* what the latest run showed: st.success / st.error / exception
  input,      \* the widget values the latest run acted on
  today,      \* datetime.now(), as a day number
  restarts,   \* how many times the server process was restarted
  hist        \* history of the running process: the table first loaded,
              \* the number and sum of stars submitted per record of it

vars == <<file, cache, df, msg, input, today, restarts, hist>>

NoInput == [kind |-> "none", selected |-> "", rating |-> 0, name |-> "",
            address |-> "", lat |-> 0, lon |-> 0]

EmptyCache == [full |-> FALSE, val |-> <<>>]
EmptyHist == [start |-> <<>>, n |-> <<>>, sum |-> <<>>, subs |-> 0]

Init ==
  /\ file \in {[status |-> "missing", rows |-> <<>>],
               [status |-> "malformed", rows |-> <<>>]}
  /\ cache = EmptyCache
  /\ df = <<>>
  /\ msg = "none"
  /\ input = NoInput
  /\ today = 1
  /\ restarts = 0
  /\ hist = EmptyHist

\* df = load_toilet_data() under @st.cache_data: the cached value when there
\* is one, else the function's result, which is then cached
CachedLoad == IF cache.full THEN cache.val ELSE load_toilet_data(file, today).value

\* the history as it stands once this run has loaded its table
HistAtLoad ==
  IF cache.full THEN hist
  ELSE [start |-> CachedLoad,
        n |-> [i \in 1..Len(CachedLoad) |-> 0],
        sum |-> [i \in 1..Len(CachedLoad) |-> 0],
        subs |-> 0]

\* df["name"].unique(): the options of the selectbox
Options(t) == {t[i].name : i \in 1..Len(t)}

\* mask = df["name"] == selected_toilet (NaN equals nothing)
Mask(t, selected_toilet) ==
  {i \in 1..Len(t) : t[i].name # NaN /\ t[i].name = selected_toilet}

Min(S) == CHOOSE x \in S : \A y \in S : x <= y

\* lines 73-82: the first masked row gives current_avg and current_count,
\* every masked row is assigned the new values
ApplyRating(t, selected_toilet, rating, now) ==
  LET mask == Mask(t, selected_toilet)
      current_avg == t[Min(mask)].avg_rating
      current_count == t[Min(mask)].num_ratings
      new_avg == NewAvg(current_avg, current_count, rating)
  IN  [i \in 1..Len(t) |->
         IF i \in mask
         THEN [t[i] EXCEPT !.avg_rating = new_avg,
                           !.num_ratings = current_count + 1,
                           !.last_updated = now]
         ELSE t[i]]

\* lines 178-186
NewToilet(name, address, lat, lon, now) ==
  [name |-> name, address |-> address, latitude |-> lat, longitude |-> lon,
   avg_rating |-> IntToRat(0), num_ratings |-> 0, last_updated |-> now]

\* if name or address:
ValidEither(name, address) == name # "" \/ address # ""

\* if name and address:
Valid(name, address) == name # "" /\ address # ""

\* a rerun in which no button was pressed (page opened, a widget changed)
View ==
  /\ cache' = [full |-> TRUE, val |-> CachedLoad]
  /\ df' = CachedLoad
  /\ msg' = "none"
  /\ input' = NoInput
  /\ hist' = HistAtLoad
  /\ UNCHANGED <<file, today, restarts>>

\* a rerun with "Submit Rating" pressed
SubmitRating(selected_toilet, rating) ==
  LET loaded == CachedLoad
      h == HistAtLoad
      mask == Mask(loaded, selected_toilet)
  IN  /\ selected_toilet \in Options(loaded)
      /\ h.subs < MaxSubmissions
      /\ cache' = [full |-> TRUE, val |-> loaded]
      /\ input' = [NoInput EXCEPT !.kind = "rate", !.selected = selected_toilet,
                                  !.rating = rating]
      /\ IF mask = {}
         THEN \* .values[0] of an empty selection raises IndexError
              /\ df' = loaded
              /\ msg' = "exception"
              /\ hist' = h
              /\ UNCHANGED file
         ELSE /\ df' = ApplyRating(loaded, selected_toilet, rating, today)
              /\ file' = to_csv(df')
              /\ msg' = "rating_success"
              /\ hist' = [h EXCEPT
                   !.subs = @ + 1,
                   !.n = [i \in 1..Len(loaded) |->
                            IF i \in mask THEN h.n[i] + 1 ELSE h.n[i]],
                   !.sum = [i \in 1..Len(loaded) |->
                            IF i \in mask THEN h.sum[i] + rating ELSE h.sum[i]]]
      /\ UNCHANGED <<today, restarts>>

\* a rerun with the "Add Toilet" form submitted
AddToilet(name, address, lat, lon) ==
  LET loaded == CachedLoad
      h == HistAtLoad
      new_toilet == NewToilet(name, address, lat, lon, today)
  IN  /\ cache' = [full |-> TRUE, val |-> loaded]
      /\ input' = [NoInput EXCEPT !.kind = "add", !.name = name,
                                  !.address = address, !.lat = lat, !.lon = lon]
      /\ IF Valid(name, address)
         THEN /\ df' = Append(loaded, new_toilet)
              /\ file' = to_csv(df')
              /\ msg' = "add_success"
              /\ hist' = h
         ELSE /\ df' = loaded
              /\ msg' = "error"
              /\ hist' = h
              /\ UNCHANGED file
      /\ UNCHANGED <<today, restarts>>

\* the date changes
Tick ==
  /\ today < MaxDay
  /\ today' = today + 1
  /\ UNCHANGED <<file, cache, df, msg, input, restarts, hist>>

\* the server process is stopped and started again: the cache and the
\* script's variables are gone, the file stays
Restart ==
  /\ restarts < MaxRestarts
  /\ cache.full
  /\ restarts' = restarts + 1
  /\ cache' = EmptyCache
  /\ df' = <<>>
  /\ msg' = "none"
  /\ input' = NoInput
  /\ hist' = EmptyHist
  /\ UNCHANGED <<file, today>>

Next ==
  \/ View
  \/ \E s \in Options(CachedLoad) \cap SelectInputs, r \in RatingInputs :
       SubmitRating(s, r)
  \/ \E n \in NameInputs, a \in AddressInputs, la \in LatInputs, lo \in LonInputs :
       AddToilet(n, a, la, lo)
  \/ Tick
  \/ Restart

Spec == Init /\ [][Next]_vars

\* ================================================================ claims
\* the table the next user action obtains from load_toilet_data()
Loaded == CachedLoad

\* p/q * c = a/b * k + s, on rationals <<p, q>> and <<a, b>>
MeanHolds(avg, count, start_avg, start_count, sum) ==
  avg[1] * count * start_avg[2] =
    (start_avg[1] * start_count + sum * start_avg[2]) * avg[2]

\* new = (old * count + stars) / (count + 1), on rationals
IsNewAvg(new, old, count, stars) ==
  new[1] * old[2] * (count + 1) = (old[1] * count + stars * old[2]) * new[2]

\* the CSV cell c holds the text value v (a missing value is an empty cell)
CellHolds(c, v) == IF v = NaN THEN c = "" ELSE c = v

RowHolds(c, r) ==
  /\ CellHolds(c.name, r.name)
  /\ CellHolds(c.address, r.address)
  /\ c.latitude = r.latitude
  /\ c.longitude = r.longitude
  /\ c.avg_rating = r.avg_rating
  /\ c.num_ratings = r.num_ratings
  /\ c.last_updated = r.last_updated

SameRecord(r, name, address, lat, lon) ==
  /\ r.name = name
  /\ r.address = address
  /\ r.latitude = lat
  /\ r.longitude = lon

\* C1: after N submissions s1..sN to a record in one running process, the
\* record's num_ratings is its starting count plus N and avg_rating *
\* num_ratings is starting_avg * starting_count + s1 + ... + sN, both in
\* the table an action obtains from load_toilet_data() and in the table
\* written to storage.
C1_RunningMean ==
  cache.full =>
    \A i \in 1..Len(hist.start) :
      /\ Loaded[i].num_ratings = hist.start[i].num_ratings + hist.n[i]
      /\ MeanHolds(Loaded[i].avg_rating, Loaded[i].num_ratings,
                   hist.start[i].avg_rating, hist.start[i].num_ratings,
                   hist.sum[i])
      /\ (file.status = "ok" /\ i <= Len(file.rows)) =>
           /\ file.rows[i].num_ratings = hist.start[i].num_ratings + hist.n[i]
           /\ MeanHolds(file.rows[i].avg_rating, file.rows[i].num_ratings,
                        hist.start[i].avg_rating, hist.start[i].num_ratings,
                        hist.sum[i])

\* C2: a rating submission of stars sets the avg_rating of the record the
\* selected name designates to (old_avg * old_count + stars) / (old_count +
\* 1), its num_ratings to old_count + 1 and its last_updated to the current
\* date; with old_count = 0 the new avg_rating is stars.
C2_SubmissionUpdate ==
  [][(msg' = "rating_success" /\ today' = today) =>
       \A i \in 1..Len(cache'.val) :
            cache'.val[i].name = input'.selected =>
              /\ IsNewAvg(df'[i].avg_rating, cache'.val[i].avg_rating,
                          cache'.val[i].num_ratings, input'.rating)
              /\ df'[i].num_ratings = cache'.val[i].num_ratings + 1
              /\ df'[i].last_updated = today'
              /\ cache'.val[i].num_ratings = 0 =>
                   df'[i].avg_rating = <<input'.rating, 1>>]_vars

\* C3: an add-toilet action with non-empty name and address appends exactly
\* one record with the given name, address, latitude, longitude and
\* avg_rating = 0, num_ratings = 0, leaves the existing records unchanged,
\* and the record is in the table every later user action works on.
C3_AddedRetrievable ==
  (input.kind = "add" /\ input.name # "" /\ input.address # "") =>
    /\ msg = "add_success"
    /\ Len(df) = Len(cache.val) + 1
    /\ SubSeq(df, 1, Len(cache.val)) = cache.val
    /\ SameRecord(df[Len(df)], input.name, input.address, input.lat, input.lon)
    /\ df[Len(df)].avg_rating = <<0, 1>>
    /\ df[Len(df)].num_ratings = 0
    /\ \E i \in 1..Len(Loaded) :
         SameRecord(Loaded[i], input.name, input.address, input.lat, input.lon)

\* C4: an add-toilet action with an empty name or an empty address shows an
\* error, appends no record, leaves the in-memory table as it was loaded
\* and writes nothing to the file.
C4_RejectedAdd ==
  [][(input'.kind = "add" /\ (input'.name = "" \/ input'.address = "")) =>
       /\ msg' = "error"
       /\ df' = cache'.val
       /\ (cache.full => cache'.val = cache.val /\ Len(df') = Len(cache.val))
       /\ file' = file]_vars

C4_Witness ==
  /\ input.kind = "add"
  /\ input.name = ""
  /\ input.address # ""
  /\ msg = "error"
  /\ file.status = "ok"
  /\ Len(df) = Len(file.rows) - 1

\* C5: after a completed rating submission or successful add, the file
\* holds exactly the records of the in-memory table as mutated: one row
\* per record, in order, with the record's fields, and no other row.
C5_FileIsTable ==
  msg \in {"rating_success", "add_success"} =>
    /\ file.status = "ok"
    /\ Len(file.rows) = Len(df)
    /\ \A i \in 1..Len(df) : RowHolds(file.rows[i], df[i])

C5_Witness ==
  /\ msg = "rating_success"
  /\ hist.subs = 2
  /\ Len(df) = 6
  /\ \E i \in 1..Len(df) : df[i].num_ratings = 1

\* the seed dataset as the specification lists it
ExpectedSeedNames ==
  <<"Flinders Street Station Toilets", "Queen Victoria Market Toilets",
    "Federation Square Toilets", "Melbourne Central Toilets",
    "State Library Toilets">>
ExpectedSeedAvg == <<<<7, 2>>, <<4, 1>>, <<21, 5>>, <<19, 5>>, <<41, 10>>>>
ExpectedSeedCount == <<12, 8, 15, 10, 7>>

IsSeed(t, now) ==
  /\ Len(t) = 5
  /\ \A i \in 1..5 :
       /\ t[i].name = ExpectedSeedNames[i]
       /\ t[i].avg_rating = ExpectedSeedAvg[i]
       /\ t[i].num_ratings = ExpectedSeedCount[i]
       /\ t[i].last_updated = now

C7_RoundTrip ==
  /\ LET first == load_toilet_data(file, today).value
     IN  \A d \in today..MaxDay :
           load_toilet_data(to_csv(first), d).value = first
  /\ cache.full =>
       \A d \in today..MaxDay :
         load_toilet_data(to_csv(Loaded), d).value = Loaded

C7_Witness ==
  /\ cache.full
  /\ file.status = "ok"
  /\ \E i \in 1..Len(file.rows) : file.rows[i].name = ""
  /\ \E i \in 1..Len(Loaded) : Loaded[i].name = NaN

\* C8: in every reachable state no two records of the table share a name.
C8_UniqueNames ==
  \A i, j \in 1..Len(df) : i # j => df[i].name # df[j].name

\* C9: a rating submission changes exactly one record, the one whose name
\* is the selected name; the number of records is unchanged, every other
\* record keeps all its fields and the rated record keeps its name,
\* address, latitude and longitude.
C9_RatingFrame ==
  msg = "rating_success" =>
    /\ Len(df) = Len(cache.val)
    /\ Cardinality({i \in 1..Len(df) : df[i] # cache.val[i]}) = 1
    /\ \A i \in 1..Len(df) :
         /\ df[i] # cache.val[i] => df[i].name = input.selected
         /\ SameRecord(df[i], cache.val[i].name, cache.val[i].address,
                       cache.val[i].latitude, cache.val[i].longitude)

\* C10: within one running process no action removes a record from the
\* file: every record of the file is still in the file after any action,
\* the number of records never decreases and no record's num_ratings
\* decreases.
C10_NoDelete ==
  [][(file.status = "ok" /\ restarts' = restarts) =>
       /\ file'.status = "ok"
       /\ Len(file'.rows) >= Len(file.rows)
       /\ \A i \in 1..Len(file.rows) :
            \E j \in 1..Len(file'.rows) :
              /\ SameRecord(file'.rows[j], file.rows[i].name,
                            file.rows[i].address, file.rows[i].latitude,
                            file.rows[i].longitude)
              /\ file'.rows[j].num_ratings >= file.rows[i].num_ratings]_vars

====
